---- MODULE Spec2Model ----
(***************************************************************************)
(* A model of the realtime layer of the posts client:                      *)
(*   - the reference-counted usePusher hook (src/unnamed/part_008): the    *)
(*     module-level transport singleton, the channelSubscriptions and      *)
(*     pendingUnsubscribes maps, the grace timers and the hook instances;  *)
(*   - the ChatWindow message list (src/src/components/ChatWindow.tsx):    *)
(*     optimistic send, reconciliation, realtime delivery and refetch.     *)
(***************************************************************************)
EXTENDS Integers, Sequences, FiniteSets, TLC

VARIABLES
    \* ---- src/unnamed/part_008 ----
    pusherKey,             \* PUSHER_KEY is non-empty (fixed at build time)
    pusherInstance,        \* the singleton: 0 is null, else an instance number
    instancesCreated,      \* how many times `new Pusher` ran
    transport,             \* per instance: the channels it is subscribed to
    bound,                 \* per <<instance, channel, event>>: the number of
                           \* handlers bound on that channel object
    channelSubscriptions,  \* Map<channelName, count>
    pendingUnsubscribes,   \* Map<channelName, TimeoutID>
    timers,                \* the live timeouts (set, not cleared, not fired)
    hooks,                 \* per hook instance: props and effect closure
    log,                   \* the unsubscribe and clearTimeout calls and the
                           \* callbacks run by the last handler, in order
    onMessage,             \* per hook instance: the callback its last render passed
    callbackRef,           \* per hook instance: callbackRef.current
    callers,               \* per hook instance: the entry point that called
                           \* usePusher for it, and the arguments it was given
    \* ---- src/src/components/ChatWindow.tsx ----
    now,                   \* Date.now()
    loading,               \* useState(true)
    messages,              \* useState<Message[]>([])
    newMessage,            \* the compose field
    sending,               \* useState(false)
    posts,                 \* the create requests in flight, in issue order
    fetch,                 \* the initial fetchMessages(1) request
    refreshes,             \* the refreshMessages requests in flight (their data)
    sendCount,             \* how many create requests were issued
    refreshCount,          \* how many refreshes were started
    serverMsgs,            \* the conversation's messages on the backend
    events,                \* new-message events published, not yet delivered
    raced,                 \* text sends whose own event arrived before their response
    collided,              \* some send reused a temporary id still in the list
    readRequests,          \* PATCH .../read requests issued by the last handler
    \* ---- src/src/hooks/usePusher.ts ----
    hkPusherInstance,      \* its pusherInstance: 0 is null, else 1
    hkChannels,            \* pusher.channels: channel name -> channel object
    hkHooks,               \* per hook instance: props and the channelInstance
                           \* its cleanup closes over (0: no cleanup)
    hkLog,                 \* the hook instances whose callback the last step ran
    \* ---- src/src/lib/api.ts ----
    token,                 \* localStorage "token": "" when absent
    location,              \* window.location.href
    inflight,              \* requests sent through the client, not yet answered
    settled,               \* what the last answered request gave its caller
    \* ---- src/unnamed/part_003: notification sound ----
    audioSupported,        \* window.AudioContext or webkitAudioContext exists;
                           \* "unknown" until the module first looks
    contexts,              \* the state of every AudioContext constructed so far
    audioContext,          \* the module's audioContext: 0 is null, else an index
    audioUnlocked,         \* the module's audioUnlocked
    resumes,               \* the pending promises of ctx.resume() and who waits
    audioOut,              \* what the last call or continuation did
    \* ---- src/unnamed/part_003: CommentSection ----
    comments,              \* useState([]): the displayed comments, by id
    commentContent,        \* useState(""): content, the textarea
    commentLoading,        \* useState(false): loading
    commentRequests,       \* the api calls in flight, with their closures
    serverComments,        \* the comments of the post on the backend
    commentsIssued,        \* submit and delete requests issued so far
    commentDeltas,         \* the sum of the onCommentChange deltas
    commentOut,            \* what the last step of the component was
    \* ---- src/src/pages/Chat.tsx ----
    page,                  \* the useState values of Chat and the URL's id
    pageRequests,          \* the api calls of Chat in flight
    pageEvents,            \* notifications handled so far
    pageOut                \* what the last step of Chat was

pusherVars == <<pusherKey, pusherInstance, instancesCreated, transport, bound,
                channelSubscriptions, pendingUnsubscribes, timers, hooks, log,
                onMessage, callbackRef, callers>>

chatVars == <<now, loading, messages, newMessage, sending, posts, fetch,
              refreshes, sendCount, refreshCount, serverMsgs, events, raced, collided,
              readRequests>>

vars == <<pusherKey, pusherInstance, instancesCreated, transport, bound,
          channelSubscriptions, pendingUnsubscribes, timers, hooks, log,
          onMessage, callbackRef, callers,
          now, loading, messages, newMessage, sending, posts, fetch,
          refreshes, sendCount, refreshCount, serverMsgs, events, raced, collided,
          readRequests,
          hkPusherInstance, hkChannels, hkHooks, hkLog,
          token, location, inflight, settled,
          audioSupported, contexts, audioContext, audioUnlocked, resumes,
          audioOut,
          comments, commentContent, commentLoading, commentRequests,
          serverComments, commentsIssued, commentDeltas, commentOut,
          page, pageRequests, pageEvents, pageOut>>

pageVars == <<page, pageRequests, pageEvents, pageOut>>

commentVars == <<comments, commentContent, commentLoading, commentRequests,
                 serverComments, commentsIssued, commentDeltas, commentOut>>

audioVars == <<audioSupported, contexts, audioContext, audioUnlocked, resumes,
               audioOut>>

hkVars == <<hkPusherInstance, hkChannels, hkHooks, hkLog>>

apiVars == <<token, location, inflight, settled>>

\* the variables an action of one part leaves alone
notPusherVars == <<chatVars, hkVars, apiVars, audioVars, commentVars, pageVars>>

notChatVars == <<pusherVars, hkVars, apiVars, audioVars, commentVars, pageVars>>

notHkVars == <<pusherVars, chatVars, apiVars, audioVars, commentVars, pageVars>>

notApiVars == <<pusherVars, chatVars, hkVars, audioVars, commentVars, pageVars>>

notAudioVars == <<pusherVars, chatVars, hkVars, apiVars, commentVars, pageVars>>

notCommentVars == <<pusherVars, chatVars, hkVars, apiVars, audioVars, pageVars>>

notPageVars == <<pusherVars, chatVars, hkVars, apiVars, audioVars, commentVars>>

(***************************************************************************)
(* Bounds of the model                                                     *)
(***************************************************************************)
NumHooks == 2
MaxDisconnects == 1
MaxClock == 1
MaxSends == 2
MaxOther == 1
MaxRefresh == 1
NumCallbacks == 2
MaxRequests == 2
MaxContexts == 2
MaxCommentRequests == 3
MaxNotifications == 2

(***************************************************************************)
(* Program constants                                                       *)
(***************************************************************************)
PageLimit == 50

Hooks == 1..NumHooks
Callbacks == 1..NumCallbacks
Instances == 1..(MaxDisconnects + 1)
Channels == {"conversation-1", "user-1"}
Events == {"new-message", "new-conversation"}

\* the [channel, event, enabled] a caller passes: a real channel when enabled,
\* the channel built from a null id when not (lines 135-140)
Props ==
    [channel : Channels, event : Events, enabled : {TRUE}]
        \cup [channel : {"conversation-null"}, event : {"new-message"}, enabled : {FALSE}]

(***************************************************************************)
(* JavaScript Map helpers                                                  *)
(***************************************************************************)
EmptyMap == [x \in {} |-> 0]

MapSet(m, k, v) == [x \in (DOMAIN m) \cup {k} |-> IF x = k THEN v ELSE m[x]]

MapDelete(m, k) == [x \in (DOMAIN m) \ {k} |-> m[x]]

\* `m.get(k) || d`: undefined and 0 are both falsy
GetOr(m, k, d) == IF k \in DOMAIN m /\ m[k] # 0 THEN m[k] ELSE d

\* the sequence without its i-th element
RemoveAt(q, i) == SubSeq(q, 1, i - 1) \o SubSeq(q, i + 1, Len(q))

\* a logged call: n is the channel's count when unsubscribe is called, the
\* timeout id for clearTimeout, the hook for a callback
Call(op, ch, inst, n) == [op |-> op, ch |-> ch, inst |-> inst, n |-> n]

(***************************************************************************)
(* The module state threaded through a handler                             *)
(***************************************************************************)
PState ==
    [key       |-> pusherKey,
     inst      |-> pusherInstance,
     created   |-> instancesCreated,
     transport |-> transport,
     bound     |-> bound,
     subs      |-> channelSubscriptions,
     pend      |-> pendingUnsubscribes,
     timers    |-> timers,
     log       |-> <<>>]

Commit(st) ==
    /\ pusherInstance' = st.inst
    /\ instancesCreated' = st.created
    /\ transport' = st.transport
    /\ bound' = st.bound
    /\ channelSubscriptions' = st.subs
    /\ pendingUnsubscribes' = st.pend
    /\ timers' = st.timers
    /\ log' = st.log
    /\ UNCHANGED pusherKey
    /\ UNCHANGED notPusherVars

\* setTimeout returns an id no live or remembered timeout carries
FreshTimerId(st) ==
    LET used == {t.id : t \in st.timers} \cup {st.pend[c] : c \in DOMAIN st.pend}
    IN  CHOOSE i \in 1..(Cardinality(used) + 1) :
            i \notin used /\ \A j \in 1..(i - 1) : j \in used

ClearTimeout(st, id) ==
    [st EXCEPT !.timers = {t \in @ : t.id # id}]

\* line 98: channelInstance.bind(event, handler) on the channel object that
\* pusher.subscribe(channel) returned
Bind(st, pusher, channel, event) ==
    [st EXCEPT !.bound = MapSet(@, <<pusher, channel, event>>,
                                GetOr(@, <<pusher, channel, event>>, 0) + 1)]

UnbindNothing(st, pusher, channel, event) == st

\* line 101: channelInstance.unbind(event, handler)
Unbind(st, pusher, channel, event) ==
    LET n == GetOr(st.bound, <<pusher, channel, event>>, 0)
    IN  IF n <= 1
        THEN [st EXCEPT !.bound = MapDelete(@, <<pusher, channel, event>>)]
        ELSE [st EXCEPT !.bound = MapSet(@, <<pusher, channel, event>>, n - 1)]

DropEveryChannel(st, pusher, channel) ==
    [st EXCEPT
       !.transport[pusher] = {},
       !.bound = [k \in {x \in DOMAIN @ : x[1] # pusher} |-> @[k]]]

\* line 114: pusher.unsubscribe(channel) drops the channel object and with it
\* whatever is bound on it
DropChannel(st, pusher, channel) ==
    [st EXCEPT
       !.transport[pusher] = @ \ {channel},
       !.bound = [k \in {x \in DOMAIN @ : ~(x[1] = pusher /\ x[2] = channel)}
                    |-> @[k]]]

GetPusherInstanceNoKeyCheck(st) ==
    IF st.inst = 0
    THEN [st |-> [st EXCEPT !.inst = st.created + 1,
                            !.created = st.created + 1],
          pusher |-> st.created + 1]
    ELSE [st |-> st, pusher |-> st.inst]

GetPusherInstance(st) ==
    IF ~st.key
    THEN [st |-> st, pusher |-> 0]
    ELSE IF st.inst = 0
    THEN [st |-> [st EXCEPT !.inst = st.created + 1,
                            !.created = st.created + 1],
          pusher |-> st.created + 1]
    ELSE [st |-> st, pusher |-> st.inst]

CancelPendingForgetOnly(st, channel) ==
    IF channel \in DOMAIN st.pend
    THEN [st EXCEPT !.pend = MapDelete(@, channel)]
    ELSE st

\* lines 75-80: cancel the pending unsubscribe, if any
CancelPending(st, channel) ==
    IF channel \in DOMAIN st.pend
    THEN [ClearTimeout(st, st.pend[channel]) EXCEPT
            !.pend = MapDelete(@, channel),
            !.log = Append(@, Call("clearTimeout", channel, 0, st.pend[channel]))]
    ELSE st

EffectNoCancel(st, channel, event, enabled) ==
    IF ~enabled
    THEN [st |-> st, sub |-> 0]
    ELSE LET g == GetPusherInstance(st) IN
         IF g.pusher = 0
         THEN [st |-> g.st, sub |-> 0]
         ELSE LET currentCount == GetOr(g.st.subs, channel, 0)
                  s2 == [g.st EXCEPT !.subs = MapSet(@, channel, currentCount + 1)]
                  s3 == [s2 EXCEPT !.transport[g.pusher] = @ \cup {channel}]
              IN  [st |-> Bind(s3, g.pusher, channel, event), sub |-> g.pusher]

\* lines 69-99: the subscribing effect; sub is the pusher the cleanup closes
\* over, 0 when the effect returned early and registered no cleanup
Effect(st, channel, event, enabled) ==
    IF ~enabled
    THEN [st |-> st, sub |-> 0]
    ELSE LET g == GetPusherInstance(st) IN
         IF g.pusher = 0
         THEN [st |-> g.st, sub |-> 0]
         ELSE LET s1 == CancelPending(g.st, channel)
                  currentCount == GetOr(s1.subs, channel, 0)
                  s2 == [s1 EXCEPT !.subs = MapSet(@, channel, currentCount + 1)]
                  s3 == [s2 EXCEPT !.transport[g.pusher] = @ \cup {channel}]
              IN  [st |-> Bind(s3, g.pusher, channel, event), sub |-> g.pusher]

\* lines 111-119 as scheduled by the cleanup: the timeout that is created
ScheduleUnsubscribe(st, channel, pusher) ==
    LET id == FreshTimerId(st)
    IN  [st EXCEPT
           !.timers = @ \cup {[id |-> id, channel |-> channel, pusher |-> pusher]},
           !.pend = MapSet(@, channel, id)]

CleanupUncounted(st, channel, event, pusher) ==
    LET s0 == Unbind(st, pusher, channel, event)
        count == GetOr(s0.subs, channel, 1)
        newCount == count - 1
        s1 == [s0 EXCEPT !.subs = MapSet(@, channel, newCount)]
    IN  [DropChannel(s1, pusher, channel) EXCEPT
           !.log = Append(@, Call("unsubscribe", channel, pusher,
                                  GetOr(s1.subs, channel, 0)))]

CleanupNoSchedule(st, channel, event, pusher) ==
    LET s0 == Unbind(st, pusher, channel, event)
        count == GetOr(s0.subs, channel, 1)
        newCount == count - 1
    IN  [s0 EXCEPT !.subs = MapSet(@, channel, newCount)]

\* lines 100-127: the effect's cleanup
Cleanup(st, channel, event, pusher) ==
    LET s0 == Unbind(st, pusher, channel, event)
        count == GetOr(s0.subs, channel, 1)
        newCount == count - 1
        s1 == [s0 EXCEPT !.subs = MapSet(@, channel, newCount)]
    IN  IF newCount <= 0
        THEN ScheduleUnsubscribe(s1, channel, pusher)
        ELSE s1

\* lines 111-119: the body of the timeout
TimerCallback(st, t) ==
    IF GetOr(st.subs, t.channel, 0) <= 0
    THEN [DropChannel(st, t.pusher, t.channel) EXCEPT
                    !.subs = MapDelete(@, t.channel),
                    !.pend = MapDelete(@, t.channel),
                    !.log = Append(@, Call("unsubscribe", t.channel, t.pusher,
                                           GetOr(st.subs, t.channel, 0)))]
    ELSE st

(***************************************************************************)
(* Hook instances                                                          *)
(***************************************************************************)
Unmounted ==
    [mounted |-> FALSE, channel |-> "", event |-> "", enabled |-> FALSE, sub |-> 0]

Mounted(channel, event, enabled, sub) ==
    [mounted |-> TRUE, channel |-> channel, event |-> event,
     enabled |-> enabled, sub |-> sub]

\* the cleanup React runs for a hook, when its effect registered one
RunCleanup(st, hk) ==
    IF hk.sub = 0 THEN st ELSE Cleanup(st, hk.channel, hk.event, hk.sub)

\* `new Pusher` can still run within the bound
CanCreate == pusherInstance # 0 \/ instancesCreated < MaxDisconnects + 1

\* no entry point has called usePusher for the hook instance
NoCaller ==
    [kind |-> "none", id |-> [null |-> TRUE, s |-> "none"], supplied |-> FALSE]

InitPusher ==
    /\ pusherKey \in BOOLEAN
    /\ pusherInstance = 0
    /\ instancesCreated = 0
    /\ transport = [i \in Instances |-> {}]
    /\ bound = EmptyMap
    /\ channelSubscriptions = EmptyMap
    /\ pendingUnsubscribes = EmptyMap
    /\ timers = {}
    /\ hooks = [h \in Hooks |-> Unmounted]
    /\ log = <<>>
    /\ onMessage = [h \in Hooks |-> 1]
    /\ callbackRef = [h \in Hooks |-> 1]
    /\ callers = [h \in Hooks |-> NoCaller]

\* a component using the hook mounts: the effect runs
Mount(h, channel, event, enabled) ==
    /\ ~hooks[h].mounted
    /\ CanCreate
    /\ LET r == Effect(PState, channel, event, enabled)
       IN  /\ Commit(r.st)
           /\ hooks' = [hooks EXCEPT ![h] = Mounted(channel, event, enabled, r.sub)]
    /\ callbackRef' = [callbackRef EXCEPT ![h] = onMessage[h]]
    /\ UNCHANGED <<onMessage, callers>>

\* a render changes [channel, event, enabled]: cleanup, then the effect again
Rerender(h, channel, event, enabled) ==
    /\ hooks[h].mounted
    /\ <<channel, event, enabled>> #
         <<hooks[h].channel, hooks[h].event, hooks[h].enabled>>
    /\ CanCreate
    /\ LET s1 == RunCleanup(PState, hooks[h])
           r == Effect(s1, channel, event, enabled)
       IN  /\ Commit(r.st)
           /\ hooks' = [hooks EXCEPT ![h] = Mounted(channel, event, enabled, r.sub)]
    /\ callbackRef' = [callbackRef EXCEPT ![h] = onMessage[h]]
    /\ UNCHANGED <<onMessage, callers>>

\* the component unmounts: the cleanup runs
Unmount(h) ==
    /\ hooks[h].mounted
    /\ Commit(RunCleanup(PState, hooks[h]))
    /\ hooks' = [hooks EXCEPT ![h] = Unmounted]
    /\ UNCHANGED <<onMessage, callbackRef, callers>>

\* a timeout runs: its 5000 ms have passed, at any point after setTimeout
TimerFire(t) ==
    /\ t \in timers
    /\ Commit(TimerCallback([PState EXCEPT !.timers = @ \ {t}], t))
    /\ UNCHANGED <<hooks, onMessage, callbackRef, callers>>

\* lines 173-178
DisconnectPusher ==
    /\ instancesCreated <= MaxDisconnects
    /\ IF pusherInstance # 0
       THEN pusherInstance' = 0
       ELSE UNCHANGED pusherInstance
    /\ log' = <<>>
    /\ UNCHANGED <<pusherKey, instancesCreated, transport, bound,
                   channelSubscriptions, pendingUnsubscribes, timers, hooks,
                   onMessage, callbackRef, callers>>
    /\ UNCHANGED notPusherVars

\* the handlers bound for an event on a channel of an instance (lines 93-101)
BoundHooks(inst, channel, event) ==
    {h \in Hooks : /\ hooks[h].sub = inst
                   /\ hooks[h].channel = channel
                   /\ hooks[h].event = event}

RECURSIVE SetToSeq(_)
SetToSeq(S) ==
    IF S = {} THEN <<>>
    ELSE LET x == CHOOSE y \in S : \A z \in S : y <= z
         IN  <<x>> \o SetToSeq(S \ {x})

\* lines 93-96: the handler of hook h runs callbackRef.current
Invoke(ch, inst, h) ==
    [op |-> "callback", ch |-> ch, inst |-> inst, n |-> h, cb |-> callbackRef[h]]

\* the transport delivers an event of a subscribed channel to its handlers
Deliver(channel, event) ==
    /\ pusherInstance # 0
    /\ channel \in transport[pusherInstance]
    /\ log' = [i \in 1..Cardinality(BoundHooks(pusherInstance, channel, event)) |->
                 Invoke(channel, pusherInstance,
                        SetToSeq(BoundHooks(pusherInstance, channel, event))[i])]
    /\ UNCHANGED <<pusherKey, pusherInstance, instancesCreated, transport,
                   bound, channelSubscriptions, pendingUnsubscribes, timers,
                   hooks, onMessage, callbackRef, callers>>
    /\ UNCHANGED notPusherVars

\* the component renders again with another onMessage and the same channel,
\* event and enabled: React first flushes the effects of the previous render,
\* the effect of lines 65-67 for this render runs later
RenderCallback(h, cb) ==
    /\ hooks[h].mounted
    /\ cb # onMessage[h]
    /\ callbackRef' = [callbackRef EXCEPT ![h] = onMessage[h]]
    /\ onMessage' = [onMessage EXCEPT ![h] = cb]
    /\ Commit(PState)
    /\ UNCHANGED <<hooks, callers>>

\* lines 65-67: the effect without dependencies runs after the render
UpdateCallbackRef(h) ==
    /\ hooks[h].mounted
    /\ callbackRef[h] # onMessage[h]
    /\ callbackRef' = [callbackRef EXCEPT ![h] = onMessage[h]]
    /\ Commit(PState)
    /\ UNCHANGED <<hooks, onMessage, callers>>

NextCallbacks ==
    \/ \E h \in Hooks, cb \in Callbacks : RenderCallback(h, cb)
    \/ \E h \in Hooks : UpdateCallbackRef(h)

(***************************************************************************)
(* The entry points useConversationChannel and useUserNotifications        *)
(***************************************************************************)
\* an id argument: null, or a string
Null == [null |-> TRUE, s |-> "null"]
Id(x) == [null |-> FALSE, s |-> x]
IdInputs == {Null, Id(""), Id("1")}

\* !!id
Truthy(id) == ~id.null /\ id.s # ""

\* `${prefix}${id}`: a null id is written as "null"
Template(prefix, id) == prefix \o id.s

useConversationChannelAlwaysEnabled(conversationId) ==
    [channel |-> Template("conversation-", conversationId),
     event   |-> "new-message",
     enabled |-> TRUE]

\* lines 131-141: the options useConversationChannel passes to usePusher
useConversationChannel(conversationId) ==
    [channel |-> Template("conversation-", conversationId),
     event   |-> "new-message",
     enabled |-> Truthy(conversationId)]

\* lines 143-171: the options of the two usePusher calls of
\* useUserNotifications; the flags say whether the handler was supplied
useUserNotifications(userId, onNewMessage, onNewConversation) ==
    <<[channel |-> Template("user-", userId),
       event   |-> "new-message-notification",
       enabled |-> Truthy(userId) /\ onNewMessage],
      [channel |-> Template("user-", userId),
       event   |-> "new-conversation",
       enabled |-> Truthy(userId) /\ onNewConversation]>>

SameProps(hk, p) ==
    hk.mounted /\ <<hk.channel, hk.event, hk.enabled>> = <<p.channel, p.event, p.enabled>>

\* the cleanup React runs for a hook instance before a render's effects: the
\* one registered by the previous effect, when [channel, event, enabled] changed
CleanupBefore(st, hk, p) ==
    IF hk.mounted /\ ~SameProps(hk, p) THEN RunCleanup(st, hk) ELSE st

\* the effect React runs for a hook instance after a render: on mount and
\* when [channel, event, enabled] changed
EffectAfter(st, hk, p) ==
    IF SameProps(hk, p)
    THEN [st |-> st, sub |-> hk.sub]
    ELSE Effect(st, p.channel, p.event, p.enabled)

\* a component calling useConversationChannel mounts, or renders again
RenderConversationCaller(h, conversationId) ==
    /\ callers[h].kind = IF hooks[h].mounted THEN "conversation" ELSE "none"
    /\ callers[h].id # conversationId
    /\ LET p == useConversationChannel(conversationId)
           r == EffectAfter(CleanupBefore(PState, hooks[h], p), hooks[h], p)
       IN  /\ Commit(r.st)
           /\ hooks' = [hooks EXCEPT
                          ![h] = Mounted(p.channel, p.event, p.enabled, r.sub)]
    /\ callers' = [callers EXCEPT
                     ![h] = [kind |-> "conversation", id |-> conversationId,
                             supplied |-> TRUE]]
    /\ callbackRef' = [callbackRef EXCEPT ![h] = onMessage[h]]
    /\ UNCHANGED onMessage

\* a component calling useUserNotifications mounts, or renders again: its two
\* usePusher calls are the hook instances h and h + 1; React runs the cleanups
\* of both, then the effects of both, in the order of the calls
RenderNotificationsCaller(h, userId, onNewMessage, onNewConversation) ==
    /\ h + 1 \in Hooks
    /\ callers[h].kind = IF hooks[h].mounted THEN "user-message" ELSE "none"
    /\ callers[h + 1].kind =
          IF hooks[h + 1].mounted THEN "user-conversation" ELSE "none"
    /\ hooks[h].mounted = hooks[h + 1].mounted
    /\ <<callers[h].id, callers[h].supplied, callers[h + 1].supplied>> #
          <<userId, onNewMessage, onNewConversation>>
    /\ LET p == useUserNotifications(userId, onNewMessage, onNewConversation)
           c1 == CleanupBefore(PState, hooks[h], p[1])
           c2 == CleanupBefore(c1, hooks[h + 1], p[2])
           r1 == EffectAfter(c2, hooks[h], p[1])
           r2 == EffectAfter(r1.st, hooks[h + 1], p[2])
       IN  /\ Commit(r2.st)
           /\ hooks' = [hooks EXCEPT
                 ![h] = Mounted(p[1].channel, p[1].event, p[1].enabled, r1.sub),
                 ![h + 1] = Mounted(p[2].channel, p[2].event, p[2].enabled, r2.sub)]
    /\ callers' = [callers EXCEPT
          ![h] = [kind |-> "user-message", id |-> userId,
                  supplied |-> onNewMessage],
          ![h + 1] = [kind |-> "user-conversation", id |-> userId,
                      supplied |-> onNewConversation]]
    /\ callbackRef' = [callbackRef EXCEPT ![h] = onMessage[h],
                                          ![h + 1] = onMessage[h + 1]]
    /\ UNCHANGED onMessage

\* the component calling useConversationChannel unmounts
UnmountConversationCaller(h) ==
    /\ hooks[h].mounted
    /\ callers[h].kind = "conversation"
    /\ Commit(RunCleanup(PState, hooks[h]))
    /\ hooks' = [hooks EXCEPT ![h] = Unmounted]
    /\ callers' = [callers EXCEPT ![h] = NoCaller]
    /\ UNCHANGED <<onMessage, callbackRef>>

\* the component calling useUserNotifications unmounts: both cleanups run
UnmountNotificationsCaller(h) ==
    /\ h + 1 \in Hooks
    /\ hooks[h].mounted
    /\ callers[h].kind = "user-message"
    /\ Commit(RunCleanup(RunCleanup(PState, hooks[h]), hooks[h + 1]))
    /\ hooks' = [hooks EXCEPT ![h] = Unmounted, ![h + 1] = Unmounted]
    /\ callers' = [callers EXCEPT ![h] = NoCaller, ![h + 1] = NoCaller]
    /\ UNCHANGED <<onMessage, callbackRef>>

EntryChannels == {"conversation-1", "user-1"}
EntryEvents == {"new-message", "new-message-notification", "new-conversation"}

NextEntry ==
    \/ \E h \in Hooks, id \in IdInputs : RenderConversationCaller(h, id)
    \/ \E h \in Hooks, id \in IdInputs, m \in BOOLEAN, c \in BOOLEAN :
          RenderNotificationsCaller(h, id, m, c)
    \/ \E h \in Hooks : UnmountConversationCaller(h)
    \/ \E h \in Hooks : UnmountNotificationsCaller(h)
    \/ \E t \in timers : TimerFire(t)
    \/ \E c \in EntryChannels, e \in EntryEvents : Deliver(c, e)

NextPusher ==
    \/ \E h \in Hooks, p \in Props : Mount(h, p.channel, p.event, p.enabled)
    \/ \E h \in Hooks, p \in Props : Rerender(h, p.channel, p.event, p.enabled)
    \/ \E h \in Hooks : Unmount(h)
    \/ \E t \in timers : TimerFire(t)
    \/ DisconnectPusher
    \/ \E c \in Channels, e \in Events : Deliver(c, e)

TypeOKPusher ==
    /\ pusherInstance \in 0..(MaxDisconnects + 1)
    /\ DOMAIN channelSubscriptions \subseteq Channels
    /\ DOMAIN pendingUnsubscribes \subseteq Channels

(***************************************************************************)
(* The usePusher hook of src/src/hooks/usePusher.ts                        *)
(***************************************************************************)
InitHk ==
    /\ hkPusherInstance = 0
    /\ hkChannels = EmptyMap
    /\ hkHooks = [h \in Hooks |-> Unmounted]
    /\ hkLog = {}

HkState == [inst |-> hkPusherInstance, channels |-> hkChannels]

\* a channel object no other hook instance and no channel name refers to
FreshObject(st, h) ==
    LET used == {hkHooks[x].sub : x \in Hooks \ {h}}
                    \cup {st.channels[c] : c \in DOMAIN st.channels}
    IN  CHOOSE i \in 1..(Cardinality(used) + 1) :
            i \notin used /\ \A j \in 1..(i - 1) : j \in used

\* lines 9-22
HkGetPusherInstance(st) ==
    IF ~pusherKey
    THEN [st |-> st, pusher |-> 0]
    ELSE [st |-> [st EXCEPT !.inst = 1], pusher |-> 1]

\* pusher.subscribe(channel): the channel object of that name, created when
\* pusher.channels holds none
HkSubscribe(st, h, channel) ==
    IF channel \in DOMAIN st.channels
    THEN st
    ELSE [st EXCEPT !.channels = MapSet(@, channel, FreshObject(st, h))]

\* pusher.unsubscribe(channel): the channel object is removed
HkUnsubscribe(st, channel) ==
    [st EXCEPT !.channels = MapDelete(@, channel)]

\* lines 35-47: the effect; sub is the channelInstance the handler is bound
\* on, 0 when the effect returned early
HkEffect(st, h, channel, event, enabled) ==
    IF ~enabled
    THEN [st |-> st, sub |-> 0]
    ELSE LET g == HkGetPusherInstance(st) IN
         IF g.pusher = 0
         THEN [st |-> g.st, sub |-> 0]
         ELSE LET s1 == HkSubscribe(g.st, h, channel)
              IN  [st |-> s1, sub |-> s1.channels[channel]]

\* lines 49-52: the cleanup unbinds its handler and unsubscribes the channel
HkCleanup(st, hk) ==
    IF hk.sub = 0 THEN st ELSE HkUnsubscribe(st, hk.channel)

HkCommit(st) ==
    /\ hkPusherInstance' = st.inst
    /\ hkChannels' = st.channels
    /\ hkLog' = {}
    /\ UNCHANGED notHkVars

HkMount(h, channel, event, enabled) ==
    /\ ~hkHooks[h].mounted
    /\ LET r == HkEffect(HkState, h, channel, event, enabled)
       IN  /\ HkCommit(r.st)
           /\ hkHooks' = [hkHooks EXCEPT
                            ![h] = Mounted(channel, event, enabled, r.sub)]

\* line 53: [channel, event, enabled] changed: cleanup, then the effect
HkRerender(h, channel, event, enabled) ==
    /\ hkHooks[h].mounted
    /\ <<channel, event, enabled>> #
         <<hkHooks[h].channel, hkHooks[h].event, hkHooks[h].enabled>>
    /\ LET r == HkEffect(HkCleanup(HkState, hkHooks[h]), h, channel, event, enabled)
       IN  /\ HkCommit(r.st)
           /\ hkHooks' = [hkHooks EXCEPT
                            ![h] = Mounted(channel, event, enabled, r.sub)]

HkUnmount(h) ==
    /\ hkHooks[h].mounted
    /\ HkCommit(HkCleanup(HkState, hkHooks[h]))
    /\ hkHooks' = [hkHooks EXCEPT ![h] = Unmounted]

\* the hook instances whose handler is bound for the event on the channel
\* object that pusher.channels holds for the name
HkReceivers(channel, event) ==
    IF channel \notin DOMAIN hkChannels THEN {}
    ELSE {h \in Hooks : /\ hkHooks[h].sub = hkChannels[channel]
                        /\ hkHooks[h].channel = channel
                        /\ hkHooks[h].event = event}

\* an event of a subscribed channel arrives: lines 43-45 run per handler
HkDeliver(channel, event) ==
    /\ channel \in DOMAIN hkChannels
    /\ hkLog' = HkReceivers(channel, event)
    /\ UNCHANGED <<hkPusherInstance, hkChannels, hkHooks>>
    /\ UNCHANGED notHkVars

NextHk ==
    \/ \E h \in Hooks, p \in Props : HkMount(h, p.channel, p.event, p.enabled)
    \/ \E h \in Hooks, p \in Props : HkRerender(h, p.channel, p.event, p.enabled)
    \/ \E h \in Hooks : HkUnmount(h)
    \/ \E c \in Channels, e \in Events : HkDeliver(c, e)

(***************************************************************************)
(* The shared api client of src/src/lib/api.ts                             *)
(***************************************************************************)
Unauthorized == 401

\* the HTTP statuses a response carries
Statuses == {200, 204, 400, Unauthorized, 500}

\* a response with a status, or a failure without one (error.response undefined)
Responses ==
    [hasResponse : {TRUE}, status : Statuses]
        \cup [hasResponse : {FALSE}, status : {0}]

Paths == {"/chat", "/login"}

\* axios' default validateStatus: 2xx resolves, everything else is an error
ValidateStatus(status) == status >= 200 /\ status < 300

InitApi ==
    /\ token = ""
    /\ location = "/chat"
    /\ inflight = <<>>
    /\ settled = [result |-> "none", hasResponse |-> FALSE, status |-> 0,
                  authorization |-> ""]

\* lines 14-20: the request interceptor; the header is "" when none is set
RequestInterceptor(tk) == IF tk # "" THEN "Bearer " \o tk ELSE ""

ResponseRejectedKeepsToken(st, error) ==
    [st EXCEPT !.result = "rejected"]

\* lines 25-31: the rejected handler of the response interceptor
ResponseRejected(st, error) ==
    IF error.hasResponse /\ error.status = Unauthorized
    THEN [st EXCEPT !.token = "", !.location = "/login", !.result = "rejected"]
    ELSE [st EXCEPT !.result = "rejected"]

\* line 24: the fulfilled handler of the response interceptor
ResponseFulfilled(st, response) == [st EXCEPT !.result = "resolved"]

\* a login stores a token
SetToken ==
    /\ token = ""
    /\ token' = "t"
    /\ UNCHANGED <<location, inflight, settled>>
    /\ UNCHANGED notApiVars

\* the user moves to another page of the application
Navigate(path) ==
    /\ location # path
    /\ location' = path
    /\ UNCHANGED <<token, inflight, settled>>
    /\ UNCHANGED notApiVars

\* some caller sends a request through the client
ApiRequest ==
    /\ Len(inflight) < MaxRequests
    /\ inflight' = Append(inflight, RequestInterceptor(token))
    /\ UNCHANGED <<token, location, settled>>
    /\ UNCHANGED notApiVars

\* the answer to request i arrives and passes the response interceptor
ApiResponse(i, res) ==
    /\ i \in 1..Len(inflight)
    /\ LET st == [token |-> token, location |-> location, result |-> "none"]
           r == IF res.hasResponse /\ ValidateStatus(res.status)
                THEN ResponseFulfilled(st, res)
                ELSE ResponseRejected(st, res)
       IN  /\ token' = r.token
           /\ location' = r.location
           /\ settled' = [result |-> r.result, hasResponse |-> res.hasResponse,
                          status |-> res.status, authorization |-> inflight[i]]
    /\ inflight' = RemoveAt(inflight, i)
    /\ UNCHANGED notApiVars

NextApi ==
    \/ SetToken
    \/ \E path \in Paths : Navigate(path)
    \/ ApiRequest
    \/ \E i \in 1..MaxRequests, res \in Responses : ApiResponse(i, res)

(***************************************************************************)
(* The notification sound of src/unnamed/part_003                          *)
(***************************************************************************)
\* what a call gave its caller, and whether it scheduled the two tones
Out(call, failure, sounded) ==
    [call |-> call, failure |-> failure, sounded |-> sounded]

InitAudio ==
    /\ audioSupported = "unknown"
    /\ contexts = <<>>
    /\ audioContext = 0
    /\ audioUnlocked = FALSE
    /\ resumes = {}
    /\ audioOut = Out("none", "none", FALSE)

AState == [contexts |-> contexts, audioContext |-> audioContext]

\* what `new AudioContextClass()` does: it throws, or it returns a context
\* that is suspended (no user activation yet) or running
Constructions == {"throws", "suspended", "running"}

\* what the lookup of lines 10-13 can find in this browser
Supported ==
    IF audioSupported = "unknown" THEN {"yes", "no"} ELSE {audioSupported}

getAudioContextAlwaysNew(st, supported, constructs) ==
    IF supported = "no" THEN [st |-> st, ctx |-> 0]
    ELSE IF constructs = "throws" THEN [st |-> st, ctx |-> 0]
    ELSE [st  |-> [contexts |-> Append(st.contexts, constructs),
                   audioContext |-> Len(st.contexts) + 1],
          ctx |-> Len(st.contexts) + 1]

\* lines 8-28: getAudioContext; ctx 0 is null
getAudioContext(st, supported, constructs) ==
    IF supported = "no" THEN [st |-> st, ctx |-> 0]
    ELSE IF st.audioContext = 0 \/ st.contexts[st.audioContext] = "closed"
    THEN IF constructs = "throws" THEN [st |-> st, ctx |-> 0]
         ELSE [st  |-> [contexts |-> Append(st.contexts, constructs),
                        audioContext |-> Len(st.contexts) + 1],
               ctx |-> Len(st.contexts) + 1]
    ELSE [st |-> st, ctx |-> st.audioContext]

\* the call stays within the bound on constructed contexts
WithinContexts(g) == Len(g.st.contexts) <= MaxContexts

\* lines 34-70: initializeAudioContext
InitializeAudioContext(supported, constructs) ==
    /\ IF audioUnlocked
       THEN /\ audioOut' = Out("initializeAudioContext", "none", FALSE)
            /\ UNCHANGED <<audioSupported, contexts, audioContext,
                           audioUnlocked, resumes>>
       ELSE LET g == getAudioContext(AState, supported, constructs) IN
            /\ WithinContexts(g)
            /\ audioSupported' = supported
            /\ contexts' = g.st.contexts
            /\ audioContext' = g.st.audioContext
            /\ audioOut' = Out("initializeAudioContext", "none", FALSE)
            /\ IF g.ctx = 0
               THEN UNCHANGED <<audioUnlocked, resumes>>
               ELSE /\ audioUnlocked' = TRUE
                    /\ resumes' =
                          IF g.st.contexts[g.ctx] = "suspended"
                          THEN resumes \cup {[ctx |-> g.ctx,
                                           by  |-> "initializeAudioContext"]}
                          ELSE resumes
    /\ UNCHANGED notAudioVars

\* lines 76-91: playNotificationSound up to its await; lines 93-130 when the
\* context is not suspended
PlayNotificationSound(supported, constructs) ==
    /\ LET g == getAudioContext(AState, supported, constructs) IN
       /\ WithinContexts(g)
       /\ audioSupported' = supported
       /\ contexts' = g.st.contexts
       /\ audioContext' = g.st.audioContext
       /\ IF g.ctx = 0
          THEN /\ audioOut' = Out("playNotificationSound", "none", FALSE)
               /\ UNCHANGED resumes
          ELSE IF g.st.contexts[g.ctx] = "suspended"
          THEN /\ resumes' = resumes \cup {[ctx |-> g.ctx,
                                       by  |-> "playNotificationSound"]}
               /\ audioOut' = Out("playNotificationSound", "none", FALSE)
          ELSE /\ audioOut' = Out("playNotificationSound", "none", TRUE)
               /\ UNCHANGED resumes
    /\ UNCHANGED audioUnlocked
    /\ UNCHANGED notAudioVars

\* the promise of ctx.resume() is fulfilled: lines 48-51, or lines 93-130
ResumeFulfilled(p) ==
    /\ p \in resumes
    /\ contexts[p.ctx] # "closed"
    /\ resumes' = resumes \ {p}
    /\ contexts' = [contexts EXCEPT ![p.ctx] = "running"]
    /\ IF p.by = "initializeAudioContext"
       THEN /\ audioUnlocked' = TRUE
            /\ audioOut' = Out(p.by, "none", FALSE)
       ELSE /\ audioOut' = Out(p.by, "none", TRUE)
            /\ UNCHANGED audioUnlocked
    /\ UNCHANGED <<audioSupported, audioContext>>
    /\ UNCHANGED notAudioVars

\* the promise of ctx.resume() is rejected: the .then of line 48 has no
\* rejection handler; the await of line 87 is inside try/catch (lines 86-91)
ResumeRejected(p) ==
    /\ p \in resumes
    /\ resumes' = resumes \ {p}
    /\ audioOut' = Out(p.by,
                       IF p.by = "initializeAudioContext"
                       THEN "unhandled rejection" ELSE "none",
                       FALSE)
    /\ UNCHANGED <<audioSupported, contexts, audioContext, audioUnlocked>>
    /\ UNCHANGED notAudioVars

\* the browser suspends a running context (the device sleeps)
ContextSuspended ==
    /\ audioContext # 0
    /\ contexts[audioContext] = "running"
    /\ contexts' = [contexts EXCEPT ![audioContext] = "suspended"]
    /\ audioOut' = Out("none", "none", FALSE)
    /\ UNCHANGED <<audioSupported, audioContext, audioUnlocked, resumes>>
    /\ UNCHANGED notAudioVars

\* the context is closed from outside the module (the audio device is lost)
ContextClosed ==
    /\ audioContext # 0
    /\ contexts[audioContext] # "closed"
    /\ contexts' = [contexts EXCEPT ![audioContext] = "closed"]
    /\ audioOut' = Out("none", "none", FALSE)
    /\ UNCHANGED <<audioSupported, audioContext, audioUnlocked, resumes>>
    /\ UNCHANGED notAudioVars

NextAudio ==
    \/ \E s \in Supported, c \in Constructions : InitializeAudioContext(s, c)
    \/ \E s \in Supported, c \in Constructions : PlayNotificationSound(s, c)
    \/ \E p \in resumes : ResumeFulfilled(p)
    \/ \E p \in resumes : ResumeRejected(p)
    \/ ContextSuspended
    \/ ContextClosed

(***************************************************************************)
(* ChatWindow: the message list                                            *)
(***************************************************************************)
Me == "me"
Other == "other"

\* strings are sequences of characters, so that trim() is computed
Hi == <<"h", "i">>
Inputs == {<<" ">>, <<" ">> \o Hi}
ImageUrls == {<<"u">>}
OtherContents == {Hi}

RECURSIVE TrimStart(_)
TrimStart(s) == IF s # <<>> /\ Head(s) = " " THEN TrimStart(Tail(s)) ELSE s

RECURSIVE TrimEnd(_)
TrimEnd(s) ==
    IF s # <<>> /\ s[Len(s)] = " " THEN TrimEnd(SubSeq(s, 1, Len(s) - 1)) ELSE s

\* String.prototype.trim
Trim(s) == TrimEnd(TrimStart(s))

\* `temp-${Date.now()}` and a backend id; startsWith("temp-") is the temp field
TempId(t) == [temp |-> TRUE, n |-> t]
ServerId(k) == [temp |-> FALSE, n |-> k]

Msg(id, content, senderId) == [id |-> id, content |-> content, senderId |-> senderId]

\* the entity the backend returns for its k-th message
ServerEntity(k) == Msg(ServerId(k), serverMsgs[k].content, serverMsgs[k].senderId)

\* GET .../messages?page=1&limit=50: the latest messages, oldest first
Page1 ==
    LET n == Len(serverMsgs)
        first == IF n > PageLimit THEN n - PageLimit + 1 ELSE 1
    IN  [i \in 1..(n - first + 1) |-> ServerEntity(first + i - 1)]

OptimisticInsertFirst(prev, optimisticMessage) == <<optimisticMessage>> \o prev

\* line 266 and line 383: setMessages((prev) => [...prev, optimisticMessage])
OptimisticInsert(prev, optimisticMessage) == Append(prev, optimisticMessage)

\* lines 275-277 and 391-393: prev.map((msg) => msg.id === tempId ? data : msg)
Reconcile(prev, tempId, data) ==
    [i \in 1..Len(prev) |-> IF prev[i].id = tempId THEN data ELSE prev[i]]

RollbackKeepsEntry(prev, tempId) == prev

\* lines 281 and 396: prev.filter((msg) => msg.id !== tempId)
Rollback(prev, tempId) ==
    LET Keep(msg) == msg.id # tempId IN SelectSeq(prev, Keep)

OnNewMessageIdOnly(prev, newMsg) ==
    LET exists == \E i \in 1..Len(prev) : prev[i].id = newMsg.id
    IN  IF exists THEN prev ELSE Append(prev, newMsg)

\* lines 168-196: the updater of the realtime handler
OnNewMessage(prev, newMsg) ==
    LET exists == \E i \in 1..Len(prev) :
                      \/ prev[i].id = newMsg.id
                      \/ prev[i].id.temp /\ prev[i].content = newMsg.content
    IN  IF exists THEN prev ELSE Append(prev, newMsg)

\* lines 216-227: the updater of refreshMessages
MergeRefresh(prev, data) ==
    LET existingIds == {prev[i].id : i \in 1..Len(prev)}
        IsNew(m) == m.id \notin existingIds /\ ~m.id.temp
        newMessages == SelectSeq(data, IsNew)
    IN  IF Len(newMessages) > 0 THEN prev \o newMessages ELSE prev

MarkAsReadNever(cond) == 0

\* lines 238-244: a call of markAsRead issues one PATCH .../read; n calls
\* guarded by a condition issue one request when it holds and none otherwise
MarkAsReadCalls(cond) == IF cond THEN 1 ELSE 0

InitChat ==
    /\ now = 0
    /\ loading = TRUE
    /\ messages = <<>>
    /\ newMessage = <<>>
    /\ sending = FALSE
    /\ posts = <<>>
    /\ fetch = [st |-> "sent", data |-> <<>>]
    /\ refreshes = {}
    /\ sendCount = 0
    /\ refreshCount = 0
    /\ serverMsgs = <<>>
    /\ events = {}
    /\ raced = {}
    /\ collided = FALSE
    /\ readRequests = 1

(***************************************************************************)
(* CommentSection of src/unnamed/part_003                                  *)
(***************************************************************************)
\* the comments the post has on the backend when the component mounts
FirstComments == <<1>>

\* what the user can type into the textarea
CommentInputs == {<<" ">>, <<"a">>}

\* an api call in flight: the closure of the handler that issued it (snap is
\* the `comments` of its render), and the response once the backend answered
CommentRequest(n, op, snap, id) ==
    [n |-> n, op |-> op, snap |-> snap, id |-> id,
     res |-> "sent", list |-> <<>>, newId |-> 0]

CommentStep(step, res, data) == [step |-> step, res |-> res, data |-> data]

\* lines 834-847: the state after the first render and its effect
InitComments ==
    /\ comments = <<>>
    /\ commentContent = <<>>
    /\ commentLoading = FALSE
    /\ commentRequests = {CommentRequest(0, "get", <<>>, 0)}
    /\ serverComments = FirstComments
    /\ commentsIssued = 0
    /\ commentDeltas = 0
    /\ commentOut = CommentStep("mount", "sent", 0)

(***************************************************************************)
(* The Chat page of src/src/pages/Chat.tsx                                 *)
(***************************************************************************)
\* conversation ids; 0 stands for null (no selection, no id in the URL)
Conversations == {1, 2}

\* the conversationId of a notification payload: one of the user's
\* conversations or another one
PayloadIds == Conversations \cup {3}

PageStep(step, conversationId) ==
    [step |-> step, conversationId |-> conversationId]

\* lines 12-36: the state of the first render; /auth/me is in flight
InitPage ==
    /\ page = [selectedConversation |-> 0, showNewChatModal |-> FALSE,
               currentUserId |-> "", isMobile |-> FALSE,
               refreshTrigger |-> 0, listRefreshTrigger |-> 0,
               conversationId |-> 0]
    /\ pageRequests = {[op |-> "me", id |-> 0]}
    /\ pageEvents = 0
    /\ pageOut = PageStep("mount", 0)

Init ==
    /\ InitPusher /\ InitChat /\ InitHk /\ InitApi /\ InitAudio
    /\ InitComments /\ InitPage

handleNewMessageAlwaysRefreshes(pg, selectedConversation, conversationId) ==
    [pg EXCEPT !.listRefreshTrigger = @ + 1, !.refreshTrigger = @ + 1]

\* lines 46-66: handleNewMessage; selectedConversation is the value its
\* useCallback closure holds
handleNewMessage(pg, selectedConversation, conversationId) ==
    LET listed == [pg EXCEPT !.listRefreshTrigger = @ + 1]
    IN  IF selectedConversation # 0 /\ conversationId = selectedConversation
        THEN [listed EXCEPT !.refreshTrigger = @ + 1]
        ELSE listed

\* lines 68-71: handleNewConversation
handleNewConversation(pg) == [pg EXCEPT !.listRefreshTrigger = @ + 1]

\* lines 73-76 with hooks/usePusher.ts lines 33, 43-45 and 79: a
\* new-message-notification reaches the handler of the latest render
NewMessageNotification(conversationId) ==
    /\ page.currentUserId # ""
    /\ pageEvents < MaxNotifications
    /\ pageEvents' = pageEvents + 1
    /\ page' = handleNewMessage(page, page.selectedConversation,
                                conversationId)
    /\ pageOut' = PageStep("new-message-notification", conversationId)
    /\ UNCHANGED pageRequests
    /\ UNCHANGED notPageVars

\* lines 73-76 with hooks/usePusher.ts line 86: a new-conversation event
NewConversation ==
    /\ page.currentUserId # ""
    /\ pageEvents < MaxNotifications
    /\ pageEvents' = pageEvents + 1
    /\ page' = handleNewConversation(page)
    /\ pageOut' = PageStep("new-conversation", 0)
    /\ UNCHANGED pageRequests
    /\ UNCHANGED notPageVars

\* lines 79-95: the effect on conversationId fetches the conversation when
\* the id of the URL changes to a non-null one
FetchConversation(old, new) ==
    IF new # 0 /\ new # old THEN {[op |-> "conversation", id |-> new]} ELSE {}

\* lines 97-100: handleSelectConversation
HandleSelectConversation(c) ==
    /\ page' = [page EXCEPT !.selectedConversation = c, !.conversationId = c]
    /\ pageRequests' = pageRequests \cup FetchConversation(page.conversationId, c)
    /\ pageOut' = PageStep("handleSelectConversation", c)
    /\ UNCHANGED pageEvents
    /\ UNCHANGED notPageVars

\* lines 102-105: handleBack
HandleBack ==
    /\ page.selectedConversation # 0
    /\ page' = [page EXCEPT !.selectedConversation = 0, !.conversationId = 0]
    /\ pageOut' = PageStep("handleBack", 0)
    /\ UNCHANGED <<pageRequests, pageEvents>>
    /\ UNCHANGED notPageVars

\* lines 29-33 and 83-90: the response of /auth/me or of the conversation
\* fetch
PageResponse(r, ok) ==
    /\ r \in pageRequests
    /\ pageRequests' = pageRequests \ {r}
    /\ page' =
          IF r.op = "me"
          THEN IF ok THEN [page EXCEPT !.currentUserId = "u1"] ELSE page
          ELSE IF ok THEN [page EXCEPT !.selectedConversation = r.id]
               ELSE [page EXCEPT !.conversationId = 0]
    /\ pageOut' = PageStep(r.op, r.id)
    /\ UNCHANGED pageEvents
    /\ UNCHANGED notPageVars

\* lines 40 and 156-163: resize, and opening or closing the modal
PageToggle(field) ==
    /\ field \in {"isMobile", "showNewChatModal"}
    /\ page' = [page EXCEPT ![field] = ~@]
    /\ pageOut' = PageStep(field, 0)
    /\ UNCHANGED <<pageRequests, pageEvents>>
    /\ UNCHANGED notPageVars

NextPage ==
    \/ \E c \in PayloadIds : NewMessageNotification(c)
    \/ NewConversation
    \/ \E c \in Conversations : HandleSelectConversation(c)
    \/ HandleBack
    \/ \E r \in pageRequests, ok \in BOOLEAN : PageResponse(r, ok)
    \/ \E f \in {"isMobile", "showNewChatModal"} : PageToggle(f)

\* line 902: onChange of the textarea
SetContent(v) ==
    /\ commentContent' = v
    /\ commentOut' = CommentStep("setContent", "none", 0)
    /\ UNCHANGED <<comments, commentLoading, commentRequests, serverComments,
                   commentsIssued, commentDeltas>>
    /\ UNCHANGED notCommentVars

\* lines 849-855: handleSubmit up to its await; the submit button is
\* disabled while loading (line 910)
HandleSubmit ==
    /\ ~commentLoading
    /\ commentsIssued < MaxCommentRequests
    /\ IF Trim(commentContent) = <<>>
       THEN /\ commentOut' = CommentStep("handleSubmit", "none", 0)
            /\ UNCHANGED <<commentLoading, commentRequests, commentsIssued>>
       ELSE /\ commentLoading' = TRUE
            /\ commentsIssued' = commentsIssued + 1
            /\ commentRequests' = commentRequests \cup
                   {CommentRequest(commentsIssued + 1, "post", comments, 0)}
            /\ commentOut' = CommentStep("handleSubmit", "sent", 0)
    /\ UNCHANGED <<comments, commentContent, serverComments, commentDeltas>>
    /\ UNCHANGED notCommentVars

\* lines 866-869: handleDelete up to its await; confirmed is the answer of
\* confirm()
HandleDelete(i, confirmed) ==
    /\ i \in 1..Len(comments)
    /\ commentsIssued < MaxCommentRequests
    /\ IF ~confirmed
       THEN /\ commentOut' = CommentStep("handleDelete", "none", 0)
            /\ UNCHANGED <<commentRequests, commentsIssued>>
       ELSE /\ commentsIssued' = commentsIssued + 1
            /\ commentRequests' = commentRequests \cup
                   {CommentRequest(commentsIssued + 1, "delete", comments,
                                   comments[i])}
            /\ commentOut' = CommentStep("handleDelete", "sent", 0)
    /\ UNCHANGED <<comments, commentContent, commentLoading, serverComments,
                   commentDeltas>>
    /\ UNCHANGED notCommentVars

\* the id the backend gives the next comment
NextCommentId == Len(FirstComments) + commentsIssued + 1

\* the backend answers a request: it lists, creates or deletes, or fails
CommentServer(r, ok) ==
    /\ r \in commentRequests
    /\ r.res = "sent"
    /\ ok /\ r.op = "delete" => \E j \in 1..Len(serverComments) :
                                     serverComments[j] = r.id
    /\ LET IsNot(c) == c # r.id
           answer ==
               IF ~ok THEN [r EXCEPT !.res = "failed"]
               ELSE IF r.op = "get"
               THEN [r EXCEPT !.res = "ok", !.list = serverComments]
               ELSE IF r.op = "post"
               THEN [r EXCEPT !.res = "ok", !.newId = NextCommentId]
               ELSE [r EXCEPT !.res = "ok"]
       IN  /\ commentRequests' = (commentRequests \ {r}) \cup {answer}
           /\ serverComments' =
                 IF ~ok \/ r.op = "get" THEN serverComments
                 ELSE IF r.op = "post"
                 THEN <<NextCommentId>> \o serverComments
                 ELSE SelectSeq(serverComments, IsNot)
    /\ commentOut' = CommentStep("server", "none", 0)
    /\ UNCHANGED <<comments, commentContent, commentLoading, commentsIssued,
                   commentDeltas>>
    /\ UNCHANGED notCommentVars

OnPostSuccessAppends(snap, data) == Append(snap, data)

\* line 856: setComments([res.data, ...comments])
OnPostSuccess(snap, data) == <<data>> \o snap

\* line 870: setComments(comments.filter((c) => c.id !== id))
OnDeleteSuccess(snap, id) ==
    LET IsNot(c) == c # id IN SelectSeq(snap, IsNot)

\* the response of a request reaches the handler that awaits it:
\* lines 841-844 (fetchComments), 856-863 (handleSubmit), 870-874
\* (handleDelete)
CommentResponse(r) ==
    /\ r \in commentRequests
    /\ r.res # "sent"
    /\ commentRequests' = commentRequests \ {r}
    /\ commentOut' = CommentStep(r.op, r.res, r.newId)
    /\ comments' =
          IF r.res # "ok" THEN comments
          ELSE IF r.op = "get" THEN r.list
          ELSE IF r.op = "post" THEN OnPostSuccess(r.snap, r.newId)
          ELSE OnDeleteSuccess(r.snap, r.id)
    /\ commentContent' =
          IF r.op = "post" /\ r.res = "ok" THEN <<>> ELSE commentContent
    /\ commentLoading' = IF r.op = "post" THEN FALSE ELSE commentLoading
    /\ commentDeltas' =
          IF r.res # "ok" \/ r.op = "get" THEN commentDeltas
          ELSE IF r.op = "post" THEN commentDeltas + 1
          ELSE commentDeltas - 1
    /\ UNCHANGED <<serverComments, commentsIssued>>
    /\ UNCHANGED notCommentVars

NextComments ==
    \/ \E v \in CommentInputs : SetContent(v)
    \/ HandleSubmit
    \/ \E i \in 1..Len(comments), c \in BOOLEAN : HandleDelete(i, c)
    \/ \E r \in commentRequests, ok \in BOOLEAN : CommentServer(r, ok)
    \/ \E r \in commentRequests : CommentResponse(r)

\* Date.now() advances
ClockTick ==
    /\ now < MaxClock
    /\ now' = now + 1
    /\ UNCHANGED <<loading, messages, newMessage, sending, posts, fetch,
                   refreshes, sendCount, refreshCount, serverMsgs, events,
                   raced, collided>>
    /\ readRequests' = 0
    /\ UNCHANGED notChatVars

\* the backend answers the initial GET (lines 85-88)
FetchServe ==
    /\ fetch.st = "sent"
    /\ fetch' = [st |-> "served", data |-> Page1]
    /\ UNCHANGED <<now, loading, messages, newMessage, sending, posts,
                   refreshes, sendCount, refreshCount, serverMsgs, events,
                   raced, collided>>
    /\ readRequests' = 0
    /\ UNCHANGED notChatVars

\* lines 90-104: the response of fetchMessages(1) replaces the list
FetchApply ==
    /\ fetch.st = "served"
    /\ messages' = fetch.data
    /\ loading' = FALSE
    /\ fetch' = [st |-> "done", data |-> <<>>]
    /\ UNCHANGED <<now, newMessage, sending, posts, refreshes, sendCount,
                   refreshCount, serverMsgs, events, raced, collided>>
    /\ readRequests' = 0
    /\ UNCHANGED notChatVars

\* lines 100-104: the initial GET fails
FetchFail ==
    /\ fetch.st = "sent"
    /\ loading' = FALSE
    /\ fetch' = [st |-> "done", data |-> <<>>]
    /\ UNCHANGED <<now, messages, newMessage, sending, posts, refreshes,
                   serverMsgs, events, raced, collided, sendCount,
                   refreshCount>>
    /\ readRequests' = 0
    /\ UNCHANGED notChatVars

\* line 733: the user edits the compose field (rendered once loading is over)
SetNewMessage(v) ==
    /\ ~loading
    /\ newMessage' = v
    /\ UNCHANGED <<now, loading, messages, sending, posts, fetch, refreshes,
                   serverMsgs, events, raced, collided, sendCount,
                   refreshCount>>
    /\ readRequests' = 0
    /\ UNCHANGED notChatVars

TempInUse(t) ==
    \/ \E i \in 1..Len(posts) : posts[i].tempId = t
    \/ \E i \in 1..Len(messages) : messages[i].id = TempId(t)

RejectedOnlyWhenEmpty(text, busy) == Trim(text) = <<>>

\* line 248: if (!newMessage.trim() || sending) return
Rejected(text, busy) == Trim(text) = <<>> \/ busy

\* lines 247-272: handleSend up to the await
HandleSend ==
    /\ ~loading
    /\ sendCount < MaxSends
    /\ IF Rejected(newMessage, sending)
       THEN UNCHANGED <<messages, newMessage, sending, posts, sendCount,
                        collided>>
       ELSE LET content == Trim(newMessage)
                optimisticMessage == Msg(TempId(now), content, Me)
            IN  /\ newMessage' = <<>>
                /\ sending' = TRUE
                /\ messages' = OptimisticInsert(messages, optimisticMessage)
                /\ posts' = Append(posts, [tempId |-> now, content |-> content,
                                           kind |-> "TEXT", resp |-> 0])
                /\ sendCount' = sendCount + 1
                /\ collided' = (collided \/ TempInUse(now))
    /\ UNCHANGED <<now, loading, fetch, refreshes, refreshCount, serverMsgs,
                   events, raced>>
    /\ readRequests' = 0
    /\ UNCHANGED notChatVars

\* lines 371-389: sendImageMessage up to the await
SendImageMessage(imageUrl) ==
    /\ ~loading
    /\ sendCount < MaxSends
    /\ sendCount' = sendCount + 1
    /\ messages' = OptimisticInsert(messages, Msg(TempId(now), imageUrl, Me))
    /\ posts' = Append(posts, [tempId |-> now, content |-> imageUrl,
                               kind |-> "IMAGE", resp |-> 0])
    /\ collided' = (collided \/ TempInUse(now))
    /\ UNCHANGED <<now, loading, newMessage, sending, fetch, refreshes,
                   refreshCount, serverMsgs, events, raced>>
    /\ readRequests' = 0
    /\ UNCHANGED notChatVars

\* the backend stores the message of create request i and publishes its event
ServerCreate(i) ==
    /\ i \in 1..Len(posts)
    /\ posts[i].resp = 0
    /\ serverMsgs' = Append(serverMsgs, [content |-> posts[i].content, senderId |-> Me])
    /\ posts' = [posts EXCEPT ![i].resp = Len(serverMsgs) + 1]
    /\ events' = events \cup {Len(serverMsgs) + 1}
    /\ UNCHANGED <<now, loading, messages, newMessage, sending, fetch,
                   refreshes, raced, collided, sendCount, refreshCount>>
    /\ readRequests' = 0
    /\ UNCHANGED notChatVars

\* lines 274-277 (391-393) and the finally of lines 283-286
PostSuccess(i) ==
    /\ i \in 1..Len(posts)
    /\ posts[i].resp > 0
    /\ messages' = Reconcile(messages, TempId(posts[i].tempId),
                             ServerEntity(posts[i].resp))
    /\ sending' = IF posts[i].kind = "TEXT" THEN FALSE ELSE sending
    /\ posts' = RemoveAt(posts, i)
    /\ UNCHANGED <<now, loading, newMessage, fetch, refreshes, sendCount,
                   refreshCount, serverMsgs, events, raced, collided>>
    /\ readRequests' = 0
    /\ UNCHANGED notChatVars

\* lines 278-286 (394-398): the backend rejects create request i
PostFail(i) ==
    /\ i \in 1..Len(posts)
    /\ posts[i].resp = 0
    /\ messages' = Rollback(messages, TempId(posts[i].tempId))
    /\ newMessage' = IF posts[i].kind = "TEXT" THEN posts[i].content ELSE newMessage
    /\ sending' = IF posts[i].kind = "TEXT" THEN FALSE ELSE sending
    /\ posts' = RemoveAt(posts, i)
    /\ UNCHANGED <<now, loading, fetch, refreshes, sendCount, refreshCount,
                   serverMsgs, events, raced, collided>>
    /\ readRequests' = 0
    /\ UNCHANGED notChatVars

\* another member of the conversation sends a message
OtherSend(content) ==
    /\ Cardinality({k \in 1..Len(serverMsgs) : serverMsgs[k].senderId = Other}) < MaxOther
    /\ serverMsgs' = Append(serverMsgs, [content |-> content, senderId |-> Other])
    /\ events' = events \cup {Len(serverMsgs) + 1}
    /\ UNCHANGED <<now, loading, messages, newMessage, sending, posts, fetch,
                   refreshes, raced, collided, sendCount, refreshCount>>
    /\ readRequests' = 0
    /\ UNCHANGED notChatVars

\* lines 143-202: the new-message event of backend message k is delivered
RealtimeDeliver(k) ==
    /\ pusherKey
    /\ k \in events
    /\ events' = events \ {k}
    /\ messages' = OnNewMessage(messages, ServerEntity(k))
    /\ raced' = IF \E i \in 1..Len(posts) : posts[i].resp = k /\ posts[i].kind = "TEXT"
                THEN raced \cup {k}
                ELSE raced
    /\ readRequests' = MarkAsReadCalls(serverMsgs[k].senderId # Me)
    /\ UNCHANGED <<now, loading, newMessage, sending, posts, fetch, refreshes,
                   serverMsgs, collided, sendCount, refreshCount>>
    /\ UNCHANGED notChatVars

\* lines 205-214: refreshTrigger changed, the GET is sent and answered
RefreshFetch ==
    /\ refreshCount < MaxRefresh
    /\ refreshCount' = refreshCount + 1
    /\ refreshes' = refreshes \cup {Page1}
    /\ UNCHANGED <<now, loading, messages, newMessage, sending, posts, fetch,
                   serverMsgs, events, raced, collided, sendCount>>
    /\ readRequests' = 0
    /\ UNCHANGED notChatVars

\* lines 214-227: the response of refreshMessages is merged
RefreshApply(data) ==
    /\ data \in refreshes
    /\ refreshes' = refreshes \ {data}
    /\ messages' = MergeRefresh(messages, data)
    /\ readRequests' = MarkAsReadCalls(MergeRefresh(messages, data) # messages)
    /\ UNCHANGED <<now, loading, newMessage, sending, posts, fetch, serverMsgs,
                   events, raced, collided, sendCount, refreshCount>>
    /\ UNCHANGED notChatVars

NextChat ==
    \/ ClockTick
    \/ FetchServe
    \/ FetchApply
    \/ FetchFail
    \/ \E v \in Inputs : SetNewMessage(v)
    \/ HandleSend
    \/ \E u \in ImageUrls : SendImageMessage(u)
    \/ \E i \in 1..MaxSends : ServerCreate(i)
    \/ \E i \in 1..MaxSends : PostSuccess(i)
    \/ \E i \in 1..MaxSends : PostFail(i)
    \/ \E c \in OtherContents : OtherSend(c)
    \/ \E k \in events : RealtimeDeliver(k)
    \/ RefreshFetch
    \/ \E d \in refreshes : RefreshApply(d)

SpecPusher == Init /\ [][NextPusher]_vars

SpecChat == Init /\ [][NextChat]_vars

\* every create request is answered: axios settles the promise of api.post
\* with the response or with an error
SpecChatAnswered ==
    SpecChat /\ WF_vars(\E i \in 1..MaxSends : PostSuccess(i) \/ PostFail(i))

\* the Chat page
SpecPage == Init /\ [][NextPage]_vars

\* the comment section of a post
SpecComments == Init /\ [][NextComments]_vars

\* the notification sound
SpecAudio == Init /\ [][NextAudio]_vars

\* the shared api client
SpecApi == Init /\ [][NextApi]_vars

\* the hook of src/src/hooks/usePusher.ts
SpecHk == Init /\ [][NextHk]_vars

\* the hook of part_008 called through its two entry points
SpecEntry == Init /\ [][NextEntry]_vars

\* the hook of part_008 with renders that change the callback
SpecCallbacks == Init /\ [][NextPusher \/ NextCallbacks]_vars

TypeOKChat ==
    /\ now \in 0..MaxClock
    /\ Len(posts) <= MaxSends
    /\ Len(serverMsgs) <= MaxSends + MaxOther
    /\ readRequests \in 0..1

(***************************************************************************)
(* Properties of the reference-counted usePusher hook                      *)
(***************************************************************************)
Count(c) == GetOr(channelSubscriptions, c, 0)

TimersOf(c) == {t \in timers : t.channel = c}

Logged(lg, op, c) == \E i \in 1..Len(lg) : lg[i].op = op /\ lg[i].ch = c

\* C1: the count of a channel is never negative, and transport unsubscribe is
\* never called for a channel while its count is greater than zero.
C1_CountNeverNegativeNoUnsubscribeWhileCounted ==
    /\ \A c \in DOMAIN channelSubscriptions : channelSubscriptions[c] >= 0
    /\ \A i \in 1..Len(log) : log[i].op = "unsubscribe" => log[i].n <= 0

\* a timer fired and unsubscribed one channel while another one is held twice
C1_Witness ==
    /\ \E i \in 1..Len(log) : log[i].op = "unsubscribe"
    /\ \E c \in DOMAIN channelSubscriptions : channelSubscriptions[c] = 2

\* disconnectPusher never replaced the transport instance
NeverDisconnected ==
    \/ instancesCreated = 0
    \/ instancesCreated = 1 /\ pusherInstance = 1

TransportSubscribed(c) == \E i \in Instances : c \in transport[i]

\* C2: with a key and without disconnectPusher, the transport is subscribed to
\* a channel exactly when its count is positive, or its count is zero and the
\* grace timer started when it reached zero has not fired yet.
C2_SubscribedIffCountedOrInGrace ==
    (pusherKey /\ NeverDisconnected) =>
        \A c \in Channels :
            TransportSubscribed(c) <=>
                \/ Count(c) > 0
                \/ /\ c \in DOMAIN channelSubscriptions
                   /\ channelSubscriptions[c] = 0
                   /\ TimersOf(c) # {}

\* a channel in its grace window, still subscribed on the transport
C2_Witness ==
    /\ pusherKey /\ NeverDisconnected
    /\ \E c \in Channels :
          /\ TransportSubscribed(c)
          /\ c \in DOMAIN channelSubscriptions
          /\ channelSubscriptions[c] = 0
          /\ TimersOf(c) # {}

\* C3: when a channel is subscribed again before its grace timer fires (or an
\* effect re-run releases and re-takes it), the step leaves no timer for the
\* channel alive, calls no transport unsubscribe for it and keeps every
\* transport subscription to it.
C3_ResubscribeCancelsTeardown ==
    [][\A c \in Channels :
          (Count(c)' > 0 /\ (TimersOf(c) # {} \/ Count(c) > 0)) =>
              /\ TimersOf(c)' = {}
              /\ c \notin DOMAIN pendingUnsubscribes'
              /\ ~Logged(log', "unsubscribe", c)
              /\ \A i \in Instances : c \in transport[i] => c \in transport'[i]]_vars

\* a subscribe has just cancelled the pending teardown of its channel
C3_Witness ==
    \E c \in Channels :
        /\ Logged(log, "clearTimeout", c)
        /\ Count(c) > 0
        /\ TransportSubscribed(c)

\* the step runs the timeout t (a subscribe that cancels it changes hooks)
Fires(t) == t \in timers /\ t \notin timers' /\ UNCHANGED hooks

\* the timer's own part of C4: fired at count zero, it unsubscribes once on
\* the pusher it closed over and removes both entries
TimerReleases ==
    \A t \in timers :
        (Fires(t) /\ Count(t.channel) = 0) =>
            /\ log' = <<Call("unsubscribe", t.channel, t.pusher, 0)>>
            /\ t.channel \notin DOMAIN channelSubscriptions'
            /\ t.channel \notin DOMAIN pendingUnsubscribes'
            /\ t.channel \notin transport'[t.pusher]

\* a subscribe that finds no entry starts from count 1
StartsFromOne ==
    \A c \in Channels :
        (c \notin DOMAIN channelSubscriptions /\ c \in DOMAIN channelSubscriptions') =>
            /\ channelSubscriptions'[c] = 1
            /\ pusherInstance' # 0
            /\ c \in transport'[pusherInstance']

\* ... and the transport subscription it makes is a new one
SubscribesAfresh ==
    \A c \in Channels :
        (c \notin DOMAIN channelSubscriptions /\ c \in DOMAIN channelSubscriptions') =>
            c \notin transport[pusherInstance']

\* C4: when a grace timer fires while the count is still zero, unsubscribe is
\* called exactly once and both map entries are removed, so that a later
\* subscribe starts again from count 1 with a fresh transport subscription.
C4_TimerFireReleasesAndResets ==
    [][TimerReleases /\ StartsFromOne /\ SubscribesAfresh]_vars

\* C5: a timer is pending for a channel only if the channel's count is zero,
\* the map remembers exactly that timer, and no channel has two timers.
C5_TimerOnlyAtZeroAtMostOne ==
    /\ \A t \in timers :
          /\ t.channel \in DOMAIN channelSubscriptions
          /\ channelSubscriptions[t.channel] = 0
          /\ t.channel \in DOMAIN pendingUnsubscribes
          /\ pendingUnsubscribes[t.channel] = t.id
    /\ \A c \in DOMAIN pendingUnsubscribes :
          /\ Count(c) = 0
          /\ \E t \in timers : t.channel = c /\ t.id = pendingUnsubscribes[c]
    /\ \A t1, t2 \in timers : t1.channel = t2.channel => t1 = t2

\* two channels wait for their teardown at once
C5_Witness ==
    /\ Cardinality(timers) = 2
    /\ \E c \in Channels : Logged(log, "clearTimeout", c) \/ TimersOf(c) # {}

\* C6: without a Pusher key no transport instance exists, both maps and the
\* timer set stay empty, no hook registers a cleanup (its unmount does nothing)
\* and no callback runs.
C6_NoKeyIsNoOp ==
    ~pusherKey =>
        /\ pusherInstance = 0
        /\ instancesCreated = 0
        /\ \A i \in Instances : transport[i] = {}
        /\ channelSubscriptions = EmptyMap
        /\ pendingUnsubscribes = EmptyMap
        /\ timers = {}
        /\ \A h \in Hooks : hooks[h].sub = 0
        /\ log = <<>>

\* an enabled hook is mounted although no key is configured
C6_Witness ==
    /\ ~pusherKey
    /\ \E h \in Hooks : hooks[h].mounted /\ hooks[h].enabled

(***************************************************************************)
(* Properties of the ChatWindow message list                               *)
(***************************************************************************)
\* the step issues the create request of a text message
IssuesTextPost ==
    /\ Len(posts') = Len(posts) + 1
    /\ posts'[Len(posts')].kind = "TEXT"

\* C7: a send with non-empty trimmed content c, no send being in flight,
\* leaves the previous list with one entry appended at its end, with content c
\* and a temp- id, and the create request exists only together with that entry.
C7_OptimisticInsertBeforePost ==
    [][IssuesTextPost =>
          LET c == Trim(newMessage) IN
          /\ c # <<>>
          /\ ~sending
          /\ messages' = Append(messages, Msg(TempId(now), c, Me))
          /\ messages'[Len(messages')].id.temp
          /\ posts' = Append(posts, [tempId |-> now, content |-> c,
                                     kind |-> "TEXT", resp |-> 0])]_vars

\* the optimistic entry of a text send, whose request is still unanswered,
\* ends a list that was not empty
C7_Witness ==
    /\ Len(messages) >= 2
    /\ \E i \in 1..Len(posts) :
          /\ posts[i].kind = "TEXT"
          /\ posts[i].resp = 0
          /\ messages[Len(messages)] = Msg(TempId(posts[i].tempId), Hi, Me)

\* the step processes the successful response of create request i
Succeeds(i) == posts[i].resp > 0 /\ posts' = RemoveAt(posts, i)

\* the step processes the failure of create request i
Fails(i) == posts[i].resp = 0 /\ posts' = RemoveAt(posts, i)

\* C8: on success of a create request (handleSend or sendImageMessage) the
\* entry with the send's temporary id is replaced by the returned entity at the
\* same index; length, every other entry and the order are unchanged.
C8_ReplacedInPlace ==
    [][\A i \in 1..Len(posts) :
          Succeeds(i) =>
              \E k \in 1..Len(messages) :
                  /\ messages[k].id = TempId(posts[i].tempId)
                  /\ messages' =
                        [messages EXCEPT ![k] = ServerEntity(posts[i].resp)]]_vars

\* C9: on failure of a text send the entry with its temporary id is removed
\* (the list is one shorter, the rest unchanged), the compose field holds the
\* trimmed content again and sending is false.
C9_RolledBack ==
    [][\A i \in 1..Len(posts) :
          (Fails(i) /\ posts[i].kind = "TEXT") =>
              /\ \E k \in 1..Len(messages) :
                    /\ messages[k].id = TempId(posts[i].tempId)
                    /\ messages' = RemoveAt(messages, k)
              /\ newMessage' = posts[i].content
              /\ sending' = FALSE]_vars

WithContent(c) == {i \in 1..Len(messages) : messages[i].content = c}

\* backend message k is the only message, stored or being sent, with its content
OnlyOneWith(k) ==
    /\ \A j \in 1..Len(serverMsgs) :
          serverMsgs[j].content = serverMsgs[k].content => j = k
    /\ \A i \in 1..Len(posts) :
          posts[i].content = serverMsgs[k].content => posts[i].resp = k

\* C10: once the event of an optimistically sent message has arrived before
\* the response of its create request, the list holds exactly one entry with
\* that content from then on (stated for a content no other message has, and
\* for temporary ids that never coincided).
C10_NoDuplicateAfterRace ==
    \A k \in raced :
        (~collided /\ OnlyOneWith(k)) =>
            Cardinality(WithContent(serverMsgs[k].content)) = 1

\* the step runs the realtime handler for the event of backend message k
Delivered(k) == k \in events /\ k \notin events'

\* the dedup rule: (a) an entry has the event's id, or (b) an entry has a
\* temp- id and the event's content
IsDuplicate(k) ==
    \E i \in 1..Len(messages) :
        \/ messages[i].id = ServerId(k)
        \/ messages[i].id.temp /\ messages[i].content = serverMsgs[k].content

\* C11: a delivered new-message event leaves the list unchanged exactly when
\* rule (a) or (b) holds; otherwise one entry with the event's id and content
\* is appended at the end of the list.
C11_DroppedIffDuplicateElseAppended ==
    [][\A k \in events :
          Delivered(k) =>
              /\ (messages' = messages) <=> IsDuplicate(k)
              /\ ~IsDuplicate(k) =>
                    /\ Len(messages') = Len(messages) + 1
                    /\ SubSeq(messages', 1, Len(messages)) = messages
                    /\ messages'[Len(messages')].id = ServerId(k)
                    /\ messages'[Len(messages')].content = serverMsgs[k].content]_vars

\* the event of an own message was dropped against its optimistic entry, and
\* the last step handled the event of another member's message
C11_Witness ==
    /\ raced # {}
    /\ readRequests = 1
    /\ refreshCount = 0
    /\ \E i \in 1..Len(messages) : messages[i].senderId = Other

\* C12: an event from another member whose id is not in the list and whose
\* content matches no pending temp- entry adds exactly one entry with that id
\* and content, and exactly one PATCH .../read is issued for it.
C12_AppendedAndMarkedReadOnce ==
    [][\A k \in events :
          (Delivered(k) /\ serverMsgs[k].senderId # Me /\ ~IsDuplicate(k)) =>
              /\ messages' = Append(messages, ServerEntity(k))
              /\ readRequests' = 1]_vars

\* the initial fetch is still in flight and nothing was sent or refreshed: the
\* only entry of the list was appended by the event handled in the last step
C12_Witness ==
    /\ fetch.st = "sent"
    /\ refreshCount = 0
    /\ Len(messages) = 1
    /\ messages[1].senderId = Other
    /\ readRequests = 1

\* C13: no two entries of the list carry the same temporary id.
C13_TempIdsUnique ==
    \A i, j \in 1..Len(messages) :
        (i # j /\ messages[i].id.temp) => messages[i].id # messages[j].id

\* the step is a render of hook h that changes only its callback
RendersCallback(h) == onMessage'[h] # onMessage[h]

\* C14: a render that changes only onMessage performs no transport subscribe,
\* unsubscribe, bind or unbind and leaves the counts alone, and every handler
\* run by a delivered event invokes the callback its hook was last given.
C14_CallbackSwapKeepsBindingAndIsCurrent ==
    [][/\ \A h \in Hooks :
             RendersCallback(h) =>
                 /\ UNCHANGED <<transport, channelSubscriptions, timers,
                                pendingUnsubscribes, pusherInstance, hooks>>
                 /\ log' = <<>>
       /\ \A i \in 1..Len(log') :
             log'[i].op = "callback" => log'[i].cb = onMessage[log'[i].n]]_vars

\* the channel names built from a null or an empty id
NullChannels ==
    {Template(prefix, id) : prefix \in {"conversation-", "user-"},
                            id \in {Null, Id("")}}

\* the subscription an entry point asks for with a usable id
Expected(c) ==
    CASE c.kind = "conversation" ->
             <<Template("conversation-", c.id), "new-message">>
      [] c.kind = "user-message" ->
             <<Template("user-", c.id), "new-message-notification">>
      [] c.kind = "user-conversation" ->
             <<Template("user-", c.id), "new-conversation">>
      [] OTHER -> <<"", "">>

\* C15: a hook instance called through an entry point holds a subscription
\* exactly when a key is configured, its id is non-empty and its handler was
\* supplied (whatever the other handler of useUserNotifications is), then on
\* conversation-<id> / new-message, user-<id> / new-message-notification or
\* user-<id> / new-conversation; and no transport subscription, count entry or
\* timer ever exists for a channel built from a null or empty id.
C15_EntryPointsSubscribeOnlyWithId ==
    /\ \A h \in Hooks :
          hooks[h].mounted =>
              /\ hooks[h].sub # 0 <=>
                    (pusherKey /\ Truthy(callers[h].id) /\ callers[h].supplied)
              /\ hooks[h].sub # 0 =>
                    <<hooks[h].channel, hooks[h].event>> = Expected(callers[h])
    /\ \A c \in NullChannels :
          /\ c \notin DOMAIN channelSubscriptions
          /\ c \notin DOMAIN pendingUnsubscribes
          /\ \A i \in Instances : c \notin transport[i]
          /\ TimersOf(c) = {}

\* useUserNotifications with a user id and only onNewMessage supplied: its
\* first hook instance is subscribed, its second is mounted and is not
C15_Witness ==
    \E h \in Hooks :
        /\ h + 1 \in Hooks
        /\ callers[h].kind = "user-message"
        /\ hooks[h].sub # 0
        /\ hooks[h + 1].mounted
        /\ ~callers[h + 1].supplied
        /\ hooks[h + 1].sub = 0
        /\ "user-1" \in transport[hooks[h].sub]

\* hook instance h holds a subscription to channel c
HkHolds(h, c) == hkHooks[h].sub # 0 /\ hkHooks[h].channel = c

\* C16: when two hook instances of src/src/hooks/usePusher.ts hold one
\* channel and a step releases one of them, the transport stays subscribed to
\* the channel and an event for the other instance still runs its callback.
C16_ReleaseKeepsSharedChannel ==
    [][\A c \in Channels : \A h1, h2 \in Hooks :
          (/\ h1 # h2
           /\ HkHolds(h1, c) /\ HkHolds(h2, c)
           /\ hkHooks'[h1] # hkHooks[h1]
           /\ hkHooks'[h2] = hkHooks[h2]) =>
              /\ c \in DOMAIN hkChannels'
              /\ hkChannels'[c] = hkHooks'[h2].sub]_vars

\* the step passes an answer through the response interceptor
Answers == Len(inflight') < Len(inflight)

\* C17: an answer with status 401 removes the token, sets the location to
\* the login path and is rejected to the caller; an answer that is an error
\* with another status, or without a response, leaves the token unchanged.
C17_UnauthorizedEvictsTokenAndRejects ==
    [][Answers =>
          /\ (settled'.hasResponse /\ settled'.status = Unauthorized) =>
                /\ token' = ""
                /\ location' = "/login"
                /\ settled'.result = "rejected"
          /\ ~(settled'.hasResponse /\ settled'.status = Unauthorized) =>
                /\ token' = token
                /\ location' = location
          /\ settled'.result = "rejected" <=>
                ~(settled'.hasResponse /\ ValidateStatus(settled'.status))]_vars

\* a request that carried the token was answered with 401: the token is gone,
\* the location is the login path and the caller got a rejection
C17_Witness ==
    /\ settled.status = Unauthorized
    /\ settled.authorization = "Bearer t"
    /\ settled.result = "rejected"
    /\ token = ""
    /\ location = "/login"

NonClosed == {i \in 1..Len(contexts) : contexts[i] # "closed"}

\* C18: across any sequence of initializeAudioContext and
\* playNotificationSound calls a new AudioContext is constructed only when
\* the module holds none or the one it holds is closed; at most one context
\* that is not closed exists at any time; and no step of
\* playNotificationSound closes a context.
C18_ContextReusedUnlessClosed ==
    /\ [](Cardinality(NonClosed) <= 1)
    /\ [][/\ Len(contexts') > Len(contexts) =>
              /\ audioContext = 0 \/ contexts[audioContext] = "closed"
              /\ Len(contexts') = Len(contexts) + 1
          /\ audioOut'.call = "playNotificationSound" =>
              \A i \in NonClosed : contexts'[i] # "closed"]_vars

\* a second context was constructed by playNotificationSound after the first
\* one was closed
C18_Witness ==
    /\ Len(contexts) = 2
    /\ contexts[1] = "closed"
    /\ audioContext = 2
    /\ audioOut.call = "playNotificationSound"

\* C19: neither function propagates a failure (an exception, a rejected
\* promise or an unhandled rejection) when the API is unsupported,
\* construction throws or resume() rejects; and when the resume() awaited by
\* playNotificationSound rejects, no sound is scheduled and no further
\* resume() is started.
C19_FailuresNeverPropagate ==
    /\ [](audioOut.failure = "none")
    /\ [][\A p \in resumes \ resumes' :
            p.by = "playNotificationSound" /\ contexts' = contexts =>
                ~audioOut'.sounded /\ resumes' \subseteq resumes]_vars

PostSent == commentOut'.step = "handleSubmit" /\ commentOut'.res = "sent"

PostAnswered(res) == commentOut'.step = "post" /\ commentOut'.res = res

\* C20 as stated: a submit with content renders a pending comment at once,
\* before the response of the create request; the response replaces it by the
\* confirmed comment on success and removes it on failure.
C20_SubmitIsOptimistic ==
    [][/\ PostSent => Len(comments') = Len(comments) + 1
       /\ PostAnswered("ok") =>
              /\ Len(comments') = Len(comments)
              /\ \E i \in 1..Len(comments') : comments'[i] = commentOut'.data
       /\ PostAnswered("failed") => Len(comments') = Len(comments) - 1]_vars

\* C20 as amended: handleSubmit renders nothing before the response (its
\* step leaves the list as it is); on success the confirmed comment becomes
\* the first entry of the list; on failure the list is left as it is.
C20_SubmitShowsCommentOnSuccessOnly ==
    [][/\ PostSent => comments' = comments
       /\ PostAnswered("ok") =>
              /\ Head(comments') = commentOut'.data
              /\ commentOut'.data > Len(FirstComments)
       /\ PostAnswered("failed") => comments' = comments]_vars

\* the create request succeeded after the first fetch: the confirmed comment
\* stands before the fetched one
C20_Witness ==
    /\ commentOut.step = "post"
    /\ commentOut.res = "ok"
    /\ Len(comments) = 2
    /\ comments[1] = commentOut.data

\* the page apart from its two counters
PageRest(pg) == [pg EXCEPT !.refreshTrigger = 0, !.listRefreshTrigger = 0]

\* C21: a new-message-notification changes nothing of Chat but the two
\* counters: listRefreshTrigger grows by one, and refreshTrigger grows by one
\* exactly when a conversation is selected and the payload's conversationId
\* is its id; a new-conversation event only adds one to listRefreshTrigger.
C21_NotificationsOnlyMoveCounters ==
    [][/\ pageOut'.step = "new-message-notification" =>
              /\ PageRest(page') = PageRest(page)
              /\ pageRequests' = pageRequests
              /\ page'.listRefreshTrigger = page.listRefreshTrigger + 1
              /\ page'.refreshTrigger = page.refreshTrigger +
                    (IF /\ page.selectedConversation # 0
                        /\ pageOut'.conversationId = page.selectedConversation
                     THEN 1 ELSE 0)
       /\ pageOut'.step = "new-conversation" =>
              /\ PageRest(page') = PageRest(page)
              /\ pageRequests' = pageRequests
              /\ page'.listRefreshTrigger = page.listRefreshTrigger + 1
              /\ page'.refreshTrigger = page.refreshTrigger]_vars

\* a notification for the selected conversation moved both counters after
\* one for another conversation had moved only the list's
C21_Witness ==
    /\ pageOut.step = "new-message-notification"
    /\ pageOut.conversationId = page.selectedConversation
    /\ page.refreshTrigger = 1
    /\ page.listRefreshTrigger = 2

\* C22: no two entries of the message list have the same id.
C22_NoTwoEntriesShareAnId ==
    \A i, j \in 1..Len(messages) : messages[i].id = messages[j].id => i = j

\* backend message k is an entry of the list
Listed(msgs, k) == \E i \in 1..Len(msgs) : msgs[i].id = ServerId(k)

\* C23: a confirmed message whose realtime event has been handled and that is
\* in the list stays in the list in every later step, the response of the
\* initial fetchMessages(1) included.
C23_RealtimeEntriesStay ==
    [][\A k \in 1..Len(serverMsgs) :
          (k \notin events /\ Listed(messages, k)) => Listed(messages', k)]_vars

\* C24: when the realtime handler drops the event of another member's
\* message as a duplicate, no PATCH .../read is issued for it.
C24_NoReadRequestForDroppedEvents ==
    [][\A k \in events :
          (Delivered(k) /\ serverMsgs[k].senderId # Me /\ IsDuplicate(k)) =>
              readRequests' = 0]_vars

\* the handlers bound for an event of a channel, on whichever transport
\* instance their hook subscribed
Handlers(c, e) ==
    LET keys == {k \in DOMAIN bound : k[2] = c /\ k[3] = e}
        RECURSIVE Sum(_)
        Sum(K) == IF K = {} THEN 0
                  ELSE LET k == CHOOSE x \in K : TRUE
                       IN  bound[k] + Sum(K \ {k})
    IN  Sum(keys)

EnabledHooks(c, e) ==
    {h \in Hooks : /\ hooks[h].mounted /\ hooks[h].enabled
                   /\ hooks[h].channel = c /\ hooks[h].event = e}

\* C25 as stated: the handlers bound for a (channel, event) pair are as many
\* as the mounted, enabled hook instances of the pair, in every state.
C25_HandlersMatchEnabledHooks ==
    \A c \in Channels, e \in Events :
        Handlers(c, e) = Cardinality(EnabledHooks(c, e))

\* C25 as amended: with a key configured, the handlers bound for a pair are
\* as many as the mounted, enabled hook instances of the pair, each on the
\* transport instance its hook subscribed on; a cleanup takes its own handler
\* off in the same step; and an event delivered while the count is zero and
\* the teardown is pending runs no callback.
C25_HandlersMatchEnabledHooksWithKey ==
    /\ [](pusherKey =>
            /\ \A c \in Channels, e \in Events :
                  Handlers(c, e) = Cardinality(EnabledHooks(c, e))
            /\ \A i \in Instances, c \in Channels, e \in Events :
                  GetOr(bound, <<i, c, e>>, 0) =
                      Cardinality(BoundHooks(i, c, e)))
    /\ [][\A c \in Channels :
            (Count(c) = 0 /\ c \in DOMAIN pendingUnsubscribes) =>
                \A i \in 1..Len(log') :
                    ~(log'[i].op = "callback" /\ log'[i].ch = c)]_vars

\* the last enabled hook of a channel was unmounted: the channel is in its
\* grace window, still subscribed, and no handler is bound for it
C25_Witness ==
    /\ pusherKey
    /\ \E c \in Channels :
          /\ Count(c) = 0
          /\ c \in DOMAIN pendingUnsubscribes
          /\ pusherInstance # 0
          /\ c \in transport[pusherInstance]
          /\ \A e \in Events : Handlers(c, e) = 0
    /\ \E c \in Channels, e \in Events : Handlers(c, e) = 1

\* C26: once a transport instance exists, every channel with a positive count
\* is subscribed on the current instance; a firing grace timer unsubscribes
\* its channel on every instance that holds it; and no instance is subscribed
\* to a channel that has no bookkeeping entry.
C26_BookkeepingFollowsTransport ==
    /\ [](pusherInstance # 0 =>
            \A c \in Channels : Count(c) > 0 => c \in transport[pusherInstance])
    /\ [](\A i \in Instances : transport[i] \subseteq DOMAIN channelSubscriptions)
    /\ [][\A t \in timers :
            (Fires(t) /\ Count(t.channel) = 0) =>
                \A i \in Instances : t.channel \notin transport'[i]]_vars

HasTemp == \E i \in 1..Len(messages) : messages[i].id.temp

\* the step settles the create request of a text message
TextSettled ==
    /\ Len(posts') = Len(posts) - 1
    /\ \E i \in 1..Len(posts) :
          posts[i].kind = "TEXT" /\ posts' = RemoveAt(posts, i)

\* C27: with every create request answered, a list holding temp- entries
\* leads to a list holding none, and a temp- entry is in the list only while
\* its create request is outstanding; the step settling a text send leaves
\* sending false, and sending is true only while a text send is outstanding.
C27_OptimisticEntriesAreResolved ==
    /\ HasTemp ~> ~HasTemp
    /\ [](\A i \in 1..Len(messages) :
            messages[i].id.temp =>
                \E j \in 1..Len(posts) : posts[j].tempId = messages[i].id.n)
    /\ [][TextSettled => ~sending']_vars
    /\ [](sending => \E j \in 1..Len(posts) : posts[j].kind = "TEXT")

\* both sends of the run were answered, one of them with an error, and the
\* list holds the confirmed entry only
C27_Witness ==
    /\ sendCount = MaxSends
    /\ posts = <<>>
    /\ ~sending
    /\ Len(messages) = 1
    /\ ~HasTemp
    /\ Len(serverMsgs) = 1

TextPosts(ps) == {j \in 1..Len(ps) : ps[j].kind = "TEXT"}

TextTemps(msgs) ==
    {i \in 1..Len(msgs) : msgs[i].id.temp /\ msgs[i].content \notin ImageUrls}

\* C28: while the trimmed compose text is empty or a text send is in flight,
\* no step issues a text create request, adds an optimistic text entry, sets
\* sending or clears the compose field to start a send; at most one text
\* create request is outstanding; a step issues at most one create request,
\* and the step handling a failed request issues none.
C28_SendRejectedWhenEmptyOrBusy ==
    /\ [][(Trim(newMessage) = <<>> \/ sending) =>
            /\ ~IssuesTextPost
            /\ Cardinality(TextTemps(messages')) <= Cardinality(TextTemps(messages))
            /\ sending' => sending]_vars
    /\ [](Cardinality(TextPosts(posts)) <= 1)
    /\ [][/\ Len(posts') <= Len(posts) + 1
          /\ IssuesTextPost => sending' /\ newMessage' = <<>>
          /\ \A i \in 1..Len(posts) : Fails(i) => Len(posts') = Len(posts) - 1]_vars

\* the user has typed the next message while the previous text send is
\* still unanswered: handleSend can be called and must do nothing
C28_Witness ==
    /\ sending
    /\ Trim(newMessage) = Hi
    /\ sendCount < MaxSends
    /\ Cardinality(TextPosts(posts)) = 1

Shown == {comments[i] : i \in 1..Len(comments)}

OnServer == {serverComments[i] : i \in 1..Len(serverComments)}

\* the step handles the response of a submit or of a delete
ChangeAnswered == commentOut'.step \in {"post", "delete"}

\* C29: once every request has been answered, every displayed comment exists
\* on the backend (a deleted one is not shown), every comment created through
\* the form and not deleted is displayed, and no comment is displayed twice;
\* and in the step handling the response of a submit or a delete the list
\* length changes by the delta passed to onCommentChange.
C29_ListIsFetchedPlusCreatedMinusDeleted ==
    /\ [](commentRequests = {} =>
            /\ Shown \subseteq OnServer
            /\ \A id \in OnServer : id > Len(FirstComments) => id \in Shown
            /\ Cardinality(Shown) = Len(comments))
    /\ [][ChangeAnswered =>
            Len(comments') - Len(comments) = commentDeltas' - commentDeltas]_vars

\* the step subscribes or unsubscribes a hook of channel c, or runs a grace
\* timer of c
Touches(c) ==
    \/ \E h \in Hooks :
          hooks'[h] # hooks[h] /\ c \in {hooks[h].channel, hooks'[h].channel}
    \/ \E t \in timers \ timers' : t.channel = c

\* C30: a step that subscribes, unsubscribes or fires the grace timer of
\* other channels only leaves a channel's count, its pending teardown timer
\* and its transport subscriptions as they are.
C30_OtherChannelsUntouched ==
    [][\A b \in Channels :
          ~Touches(b) =>
              /\ (b \in DOMAIN channelSubscriptions') =
                    (b \in DOMAIN channelSubscriptions)
              /\ Count(b)' = Count(b)
              /\ (b \in DOMAIN pendingUnsubscribes') =
                    (b \in DOMAIN pendingUnsubscribes)
              /\ b \in DOMAIN pendingUnsubscribes =>
                    pendingUnsubscribes'[b] = pendingUnsubscribes[b]
              /\ TimersOf(b)' = TimersOf(b)
              /\ \A i \in Instances :
                    (b \in transport'[i]) = (b \in transport[i])]_vars

\* the grace timer of one channel has just fired and unsubscribed it while
\* another channel waits for its own teardown, still subscribed
C30_Witness ==
    \E a, b \in Channels :
        /\ a # b
        /\ Logged(log, "unsubscribe", a)
        /\ TimersOf(b) # {}
        /\ b \in DOMAIN pendingUnsubscribes
        /\ TransportSubscribed(b)

====
